---- MODULE Spec2Model ----
(***************************************************************************)
(* Model of connector.py: the Connector class that bridges a local LLM     *)
(* endpoint to a remote broker over one WebSocket.                         *)
(*                                                                         *)
(* One asyncio task runs Connector.start (the reconnect loop); every       *)
(* inbound message gets its own task running Connector.handle_message.     *)
(* asyncio is cooperative: code between two suspension points runs         *)
(* atomically, so every action below is the code from one suspension       *)
(* point (an await that really waits: the dial, the channel read, the      *)
(* local-endpoint call, each streamed line, the sleep) to the next one.    *)
(* A ws.send on a closed connection raises without letting the reconnect   *)
(* loop get as far as a new connection (that needs the sleep of at least   *)
(* INITIAL_BACKOFF and a dial), so the exception handlers that follow a    *)
(* failed send, and the sends they try, belong to the same step.           *)
(***************************************************************************)
EXTENDS Integers, Sequences, FiniteSets, TLC

(* ----------------------------- bounds ---------------------------------- *)
\* what one behaviour may hold of connections established (ws objects
\* created) and inbound messages read (handler tasks spawned), a message
\* weighing as much as two connections: with 6, two connections and two
\* messages, or four connections and one message
MaxLoad == 6
\* data units the streamed endpoint responses of one behaviour deliver
MaxUnits == 2
\* consecutive sleeps without an established channel in between (long
\* enough for the delay to reach its ceiling)
MaxStreak == 7
\* The delay and the handlers do not read each other: dials fail only while
\* no message has been read, and messages are read only in behaviours in
\* which no sleep has lasted MAX_BACKOFF.

(* ------------------------ program constants ---------------------------- *)
INITIAL_BACKOFF == 1
MAX_BACKOFF == 60
BACKOFF_MULTIPLIER == 2

(* ------------------------------ inputs --------------------------------- *)
\* How the id field of a decoded request looks: a usable id, absent (None),
\* or the empty string.
IdForms == {"ok", "none", "empty"}

\* Inbound texts, by what handle_message can tell apart:
\*   shape   "malformed"  json.loads raises JSONDecodeError
\*           "nonrecord"  valid JSON that is no object (request.get raises)
\*           "record"     a JSON object
\*   type    the "type" field; payload: the "payload" of a chat_completion
\*           ("unary": stream falsy, "stream": stream truthy, "bad": no dict)
Messages ==
    { [shape |-> "malformed", type |-> "-", payload |-> "-", idf |-> "none"],
      [shape |-> "nonrecord", type |-> "-", payload |-> "-", idf |-> "none"] }
    \cup { [shape |-> "record", type |-> "chat_completion", payload |-> p, idf |-> "ok"]
             : p \in {"unary", "stream"} }
    \cup { [shape |-> "record", type |-> "chat_completion", payload |-> "bad", idf |-> i]
             : i \in IdForms }
    \cup { [shape |-> "record", type |-> "ping", payload |-> "-", idf |-> i]
             : i \in IdForms }
    \cup { [shape |-> "record", type |-> t, payload |-> "-", idf |-> "ok"]
             : t \in {"models", "unknown"} }

\* What the local endpoint answers to a call (unary, or opening a stream).
CallOutcomes == {"ok", "status", "exception"}

(* ------------------------------ state ---------------------------------- *)
VARIABLES
    BROKER_WS_URL,    \* TRUE iff the environment sets it
    CONNECTOR_TOKEN,  \* TRUE iff the environment sets it
    mgr,              \* where Connector.start is: "start", "connecting",
                      \* "serving", "sleeping", "exited"
    ws,               \* self.ws: 0 is None, c >= 1 the c-th connection object
    live,             \* the connection objects that are open
    backoff,          \* self.backoff
    nconn,            \* connection objects created so far
    tasks,            \* handler tasks, in the order their messages were read:
                      \*   msg    the message, conn  the connection it came on,
                      \*   pc     "start", "calling", "streaming", "done"
                      \*          (returned) or "crashed" (ended by an exception),
                      \*   recv   data units received from the endpoint stream
                      \*          (the k-th unit's payload is k),
                      \*   failed sends of this task that raised,
                      \*   raised the exception that handling the request met
                      \*          first, other than a failed send ("-": none)
    wire,             \* every frame written to a connection, in order
    delay,            \* argument of the asyncio.sleep in progress (0: none)
    streak,           \* sleeps since backoff was last set to INITIAL_BACKOFF
    sinceServing,     \* sleeps since the message loop was last entered
    lastEnd,          \* why connect_and_serve ended, while sleeping after it
    capped            \* TRUE iff some sleep so far lasted MAX_BACKOFF

vars == << BROKER_WS_URL, CONNECTOR_TOKEN, mgr, ws, live, backoff, nconn,
           tasks, wire, delay, streak, sinceServing, lastEnd, capped >>

Min(a, b) == IF a <= b THEN a ELSE b

\* The load of c connections and n messages.
Load(c, n) == c + 2 * n

RECURSIVE Sum(_, _)
\* f[1] + ... + f[n]
Sum(f, n) == IF n = 0 THEN 0 ELSE f[n] + Sum(f, n - 1)

RECURSIVE Pow(_, _)
Pow(b, n) == IF n = 0 THEN 1 ELSE b * Pow(b, n - 1)

Init ==
    /\ BROKER_WS_URL \in BOOLEAN
    /\ CONNECTOR_TOKEN \in BOOLEAN
    /\ mgr = "start"
    /\ ws = 0
    /\ live = {}
    /\ backoff = INITIAL_BACKOFF
    /\ nconn = 0
    /\ tasks = << >>
    /\ wire = << >>
    /\ delay = 0
    /\ streak = 0
    /\ sinceServing = 0
    /\ lastEnd = "none"
    /\ capped = FALSE

(* ------------------------ Connector.start ------------------------------ *)
\* Lines 47-49 left out: start() enters its loop whatever the settings.
ConfigNeverMissing == FALSE

\* Line 47: is either setting missing (unset or empty)?
ConfigMissing == ~BROKER_WS_URL \/ ~CONNECTOR_TOKEN

\* Lines 47-55: check the configuration, then enter the loop and dial.
Start ==
    /\ mgr = "start"
    /\ mgr' = IF ConfigMissing THEN "exited" ELSE "connecting"
    /\ UNCHANGED << BROKER_WS_URL, CONNECTOR_TOKEN, ws, live, backoff, nconn,
                    tasks, wire, delay, streak, sinceServing, lastEnd, capped >>

\* Line 63 without its min(): the delay doubles without a ceiling.
NextBackoffUncapped(b) == b * BACKOFF_MULTIPLIER

\* Line 63: the delay after a sleep of b.
NextBackoff(b) == Min(b * BACKOFF_MULTIPLIER, MAX_BACKOFF)

\* Lines 56-62: connect_and_serve has ended (why: "dial", "register",
\* "drop"); log and start asyncio.sleep(self.backoff), with self.backoff
\* as it is now.
BeginSleep(b, why) ==
    /\ mgr' = "sleeping"
    /\ delay' = b
    /\ lastEnd' = why
    /\ capped' = (capped \/ b = MAX_BACKOFF)

\* Lines 62-63 and 53-55: the sleep is over; raise the delay, dial again.
Wake ==
    /\ mgr = "sleeping"
    /\ backoff' = NextBackoff(backoff)
    /\ streak' = streak + 1
    /\ sinceServing' = sinceServing + 1
    /\ delay' = 0
    /\ lastEnd' = "none"
    /\ mgr' = "connecting"
    /\ UNCHANGED << BROKER_WS_URL, CONNECTOR_TOKEN, ws, live, nconn, tasks, wire,
                    capped >>

(* --------------------- Connector.connect_and_serve --------------------- *)
\* Line 72 moved below line 76: the delay is reset only once the register
\* frame is written.
BackoffOnConnectAfterRegister(registered) ==
    IF registered THEN INITIAL_BACKOFF ELSE backoff

\* Line 72 clearing the delay instead of setting it to the floor.
BackoffOnConnectCleared(registered) == INITIAL_BACKOFF - 1

\* Line 72: the delay once the channel is established; `registered` tells
\* whether the register frame that follows will be written.
BackoffOnConnect(registered) == INITIAL_BACKOFF

\* Lines 84-88 with the send of line 88 left out.
RegisterFramesNone(c) == << >>

\* Lines 84-88: the frames register_models writes to connection c.
RegisterFrames(c) ==
    << [conn |-> c, type |-> "register", id |-> -2, task |-> 0, data |-> 0,
         error |-> "-"] >>

\* Line 70 raises (refused, handshake rejected, timeout): no connection
\* object, self.ws and self.backoff are untouched.
DialFail ==
    /\ mgr = "connecting"
    /\ streak < MaxStreak
    /\ tasks = << >>
    /\ BeginSleep(backoff, "dial")
    /\ UNCHANGED << BROKER_WS_URL, CONNECTOR_TOKEN, ws, live, backoff, nconn,
                    tasks, wire, streak, sinceServing >>

\* Lines 70-79: the channel is established, self.ws is replaced, the delay
\* reset, the register frame written, and the message loop entered.  Nothing
\* between line 71 and the frame write of line 88 suspends.
ConnectOk ==
    /\ mgr = "connecting"
    /\ Load(nconn + 1, Len(tasks)) <= MaxLoad
    /\ nconn' = nconn + 1
    /\ ws' = nconn + 1
    /\ live' = live \cup {nconn + 1}
    /\ backoff' = BackoffOnConnect(TRUE)
    /\ streak' = 0
    /\ sinceServing' = 0
    /\ wire' = wire \o RegisterFrames(nconn + 1)
    /\ mgr' = "serving"
    /\ UNCHANGED << BROKER_WS_URL, CONNECTOR_TOKEN, tasks, delay, lastEnd, capped >>

\* Lines 70-76, then 56-62: the channel is established but is already closed
\* when register_models sends, so ws.send raises ConnectionClosed: nothing
\* is written and the loop goes to sleep with the delay line 72 has set.
RegisterFail ==
    /\ mgr = "connecting"
    /\ Load(nconn + 1, Len(tasks)) <= MaxLoad
    /\ nconn' = nconn + 1
    /\ ws' = nconn + 1
    /\ backoff' = BackoffOnConnect(FALSE)
    /\ streak' = 0
    /\ BeginSleep(backoff', "register")
    /\ UNCHANGED << BROKER_WS_URL, CONNECTOR_TOKEN, live, tasks, wire,
                    sinceServing >>

\* Line 80 awaiting the handler instead of creating a task for it.
DispatchReadyInTurn == \A t \in 1..Len(tasks) : tasks[t].pc \in {"done", "crashed"}

\* Line 80: create_task returns at once, so the loop reads on whatever the
\* earlier handlers are doing.
DispatchReady == TRUE

\* Lines 79-80: one message is read and a task is created for it.
Receive(m) ==
    /\ mgr = "serving"
    /\ DispatchReady
    /\ Load(nconn, Len(tasks) + 1) <= MaxLoad
    /\ ~capped
    /\ tasks' = Append(tasks, [msg |-> m, conn |-> ws, pc |-> "start",
                               recv |-> 0, failed |-> 0, raised |-> "-"])
    /\ UNCHANGED << BROKER_WS_URL, CONNECTOR_TOKEN, mgr, ws, live, backoff,
                    nconn, wire, delay, streak, sinceServing, lastEnd, capped >>

\* Line 70 without the `async with`: the connection object is left open.
LeftOpenOnExit == live

\* Line 70: leaving the `async with` closes the connection.
ClosedOnExit == live \ {ws}

\* Lines 79-80 keeping the tasks and cancelling the unfinished ones when
\* the message loop ends.
TasksCancelledOnDrop ==
    [t \in 1..Len(tasks) |->
        IF tasks[t].pc \in {"done", "crashed"} THEN tasks[t]
        ELSE [tasks[t] EXCEPT !.pc = "crashed"]]

\* Lines 79-80: the tasks are neither kept nor awaited nor cancelled: the
\* end of the message loop leaves them as they are.
TasksAfterDrop == tasks

\* Lines 79, 70 and 56-62: the channel closes (cleanly or not), the message
\* loop and the `async with` end, and the loop goes to sleep.  self.ws keeps
\* pointing at the closed connection object.
Drop ==
    /\ mgr = "serving"
    /\ live' = ClosedOnExit
    /\ tasks' = TasksAfterDrop
    /\ BeginSleep(backoff, "drop")
    /\ UNCHANGED << BROKER_WS_URL, CONNECTOR_TOKEN, ws, backoff, nconn,
                    wire, streak, sinceServing >>

(* ------------------ Connector.send_response / send_error --------------- *)
\* Line 95 keeping the id on the connector object instead of in a local:
\* line 176 then stamps the id of the request read last.
RequestIdShared(t) ==
    CASE tasks[Len(tasks)].msg.idf = "ok" -> Len(tasks)
      [] tasks[Len(tasks)].msg.idf = "empty" -> 0
      [] OTHER -> -1

\* Line 95 as line 176 stamps it: the id of task t's request.  The t-th
\* message's id is t; 0 is the empty string, -1 is None.
RequestId(t) ==
    CASE tasks[t].msg.idf = "ok" -> t
      [] tasks[t].msg.idf = "empty" -> 0
      [] OTHER -> -1

\* Line 111 as `if request_id is not None`.
IdNotNone(t) == tasks[t].msg.idf # "none"

\* Line 111: `if request_id`.
IdTruthy(t) == tasks[t].msg.idf = "ok"

\* Line 177: the connection object a send goes to.
SendTarget == ws

\* Line 177 on a connection object that accepts writes after it has closed.
CanSendAlways == TRUE

\* Line 177: ws.send succeeds iff that object is open.
CanSend == SendTarget \in live

\* Lines 137-139 and 109-112: a send of task t raised ConnectionClosed with
\* `depth` exception handlers around it (2: inside the try of line 124;
\* 1: inside an except clause of handle_chat_completion, or in the try of
\* line 93 outside handle_chat_completion; 0: inside the except clause of
\* line 109).  The handler of line 137 tries send_error, which raises again;
\* the handler of line 109 tries send_error if the id is truthy, which raises
\* again and ends the task; otherwise the task returns.
AfterFailedSend(t, rec, depth) ==
    LET chat == IF depth = 2 THEN 1 ELSE 0
        top  == IF depth >= 1 /\ IdTruthy(t) THEN 1 ELSE 0
    IN  [rec EXCEPT !.failed = @ + 1 + chat + top,
                    !.pc = IF depth = 0 \/ IdTruthy(t) THEN "crashed" ELSE "done"]

\* Lines 174-177: task t, whose other fields become `rec`, sends one frame
\* on whatever self.ws is now, and goes on at okpc.  `error` is the text of
\* an error frame ("LLM error" of line 136, "exception" for str(e)).
send_frame(t, rec, type, data, error, okpc, depth) ==
    IF CanSend
    THEN /\ wire' = Append(wire, [conn |-> SendTarget, type |-> type,
                                  id |-> RequestId(t), task |-> t, data |-> data,
                                  error |-> error])
         /\ tasks' = [tasks EXCEPT ![t] = [rec EXCEPT !.pc = okpc]]
    ELSE /\ wire' = wire
         /\ tasks' = [tasks EXCEPT ![t] = AfterFailedSend(t, rec, depth)]

\* A response that is no error frame.
send_response(t, rec, type, data, okpc, depth) ==
    send_frame(t, rec, type, data, "-", okpc, depth)

\* Lines 179-184: an error frame with the text `error`; the task goes on at
\* okpc.
send_error(t, rec, error, okpc, depth) ==
    send_frame(t, rec, "error", 0, error, okpc, depth)

(* ----------------------- Connector.handle_message ---------------------- *)
\* Lines 109-112 without the error frame: log only.
TopLevelErrorSilent(t, rec) ==
    /\ tasks' = [tasks EXCEPT ![t] = [rec EXCEPT !.pc = "done"]]
    /\ wire' = wire

\* Lines 109-112: the top-level `except Exception`: an error frame if the
\* request id is truthy.
TopLevelError(t, rec) ==
    IF IdTruthy(t)
    THEN send_error(t, rec, "exception", "done", 0)
    ELSE /\ tasks' = [tasks EXCEPT ![t] = [rec EXCEPT !.pc = "done"]]
         /\ wire' = wire

\* Lines 107-108 answering the undecodable text with an error frame.
OnDecodeErrorReply(t) == send_error(t, tasks[t], "exception", "done", 0)

\* Lines 107-108: json.loads raised JSONDecodeError: log, the task returns.
OnDecodeError(t) ==
    /\ tasks' = [tasks EXCEPT ![t].pc = "done"]
    /\ wire' = wire

\* Lines 104-105 answering the unknown type with an error frame.
OnUnknownTypeReply(t) == send_error(t, tasks[t], "exception", "done", 0)

\* Lines 104-105: unknown type: log, the task returns.
OnUnknownType(t) ==
    /\ tasks' = [tasks EXCEPT ![t].pc = "done"]
    /\ wire' = wire

\* Lines 93-112 up to the first suspension: decode and route.
handle_message(t) ==
    /\ t \in 1..Len(tasks)
    /\ tasks[t].pc = "start"
    /\ LET m == tasks[t].msg IN
       CASE m.shape = "malformed" -> OnDecodeError(t)
         [] m.shape = "nonrecord" ->
              \* request.get raises AttributeError; in its handler line 111
              \* reads request_id, which was never bound: the task dies.
              /\ tasks' = [tasks EXCEPT ![t].pc = "crashed", ![t].raised = "record"]
              /\ wire' = wire
         [] m.shape = "record" /\ m.type = "chat_completion" ->
              IF m.payload = "bad"
              THEN \* line 122: payload.get raises, outside the try of 124
                   TopLevelError(t, [tasks[t] EXCEPT !.raised = "payload"])
              ELSE \* lines 128 / 144: the call to the local endpoint
                   /\ tasks' = [tasks EXCEPT ![t].pc = "calling"]
                   /\ wire' = wire
         [] m.shape = "record" /\ m.type = "models" ->
              \* lines 160-172
              send_response(t, tasks[t], "models_response", 0, "done", 1)
         [] m.shape = "record" /\ m.type = "ping" ->
              send_response(t, tasks[t], "pong", 0, "done", 1)
         [] OTHER -> OnUnknownType(t)
    /\ UNCHANGED << BROKER_WS_URL, CONNECTOR_TOKEN, mgr, ws, live, backoff,
                    nconn, delay, streak, sinceServing, lastEnd, capped >>

(* -------------------- Connector.handle_chat_completion ----------------- *)
\* Lines 134-139 with the call tried again after the error frame.
PcAfterChatErrorRetry == "calling"

\* Lines 134-139: where a job is once its error frame is sent (the handler
\* returns).
PcAfterChatError == "done"

\* Lines 128-139 and 144-145: the endpoint answers the call.
handle_chat_completion(t, outcome) ==
    /\ t \in 1..Len(tasks)
    /\ tasks[t].pc = "calling"
    /\ IF outcome = "ok"
       THEN IF tasks[t].msg.payload = "unary"
            THEN \* lines 129-133
                 send_response(t, tasks[t], "chat_completion_response", 0, "done", 2)
            ELSE \* lines 145-146: the stream is open
                 /\ tasks' = [tasks EXCEPT ![t].pc = "streaming"]
                 /\ wire' = wire
       ELSE \* lines 134-139: HTTPStatusError, or any other exception
            send_error(t, [tasks[t] EXCEPT !.raised = outcome],
                       IF outcome = "status" THEN "LLM error" ELSE "exception",
                       PcAfterChatError, 1)
    /\ UNCHANGED << BROKER_WS_URL, CONNECTOR_TOKEN, mgr, ws, live, backoff,
                    nconn, delay, streak, sinceServing, lastEnd, capped >>

(* ------------------ Connector.handle_streaming_completion -------------- *)
\* What one step of `async for line in response.aiter_lines()` can bring:
\* a well-formed data line, a data line that is no JSON, the [DONE] line,
\* the end of the response, a transport error.  (A line that does not start
\* with "data: " fails the test of line 147 and changes nothing.)
StreamEvents == {"data", "baddata", "done", "eof", "fault"}

\* Data units received by all streaming jobs so far.
UnitsReceived == Sum([u \in 1..Len(tasks) |-> tasks[u].recv], Len(tasks))

\* Line 153 left out: the loop goes on reading after stream_end.
PcAfterStreamEndNoBreak == "streaming"

\* Line 153: where the task is after stream_end was sent (break).
PcAfterStreamEnd == "done"

\* Lines 146-158: one event of the response stream.
handle_streaming_completion(t, ev) ==
    /\ t \in 1..Len(tasks)
    /\ tasks[t].pc = "streaming"
    /\ CASE ev = "data" ->
              \* lines 155-158: a well-formed chunk
              /\ UnitsReceived < MaxUnits
              /\ send_response(t, [tasks[t] EXCEPT !.recv = @ + 1],
                               "stream_chunk", tasks[t].recv + 1, "streaming", 2)
         [] ev = "baddata" ->
              \* line 157: json.loads raises, caught at line 137
              send_error(t, [tasks[t] EXCEPT !.raised = "chunk"], "exception",
                         PcAfterChatError, 1)
         [] ev = "done" ->
              \* lines 149-153
              send_response(t, tasks[t], "stream_end", 0, PcAfterStreamEnd, 2)
         [] ev = "eof" ->
              \* line 146: the iterator is exhausted, the function returns
              /\ tasks' = [tasks EXCEPT ![t].pc = "done"]
              /\ wire' = wire
         [] OTHER ->
              \* line 146 raises a transport error, caught at line 137
              send_error(t, [tasks[t] EXCEPT !.raised = "fault"], "exception",
                         PcAfterChatError, 1)
    /\ UNCHANGED << BROKER_WS_URL, CONNECTOR_TOKEN, mgr, ws, live, backoff,
                    nconn, delay, streak, sinceServing, lastEnd, capped >>

(* --------------------------- specification ----------------------------- *)
Next ==
    \/ Start
    \/ DialFail
    \/ ConnectOk
    \/ RegisterFail
    \/ \E m \in Messages : Receive(m)
    \/ Drop
    \/ Wake
    \/ \E t \in 1..Len(tasks) : handle_message(t)
    \/ \E t \in 1..Len(tasks), o \in CallOutcomes : handle_chat_completion(t, o)
    \/ \E t \in 1..Len(tasks), ev \in StreamEvents : handle_streaming_completion(t, ev)

Spec == Init /\ [][Next]_vars

\* The same program with what the event loop guarantees start(): once it is
\* scheduled it runs (asyncio.run, line 193), and asyncio.sleep (line 62)
\* returns when its finite delay has passed.
FairSpec == Spec /\ WF_vars(Start) /\ WF_vars(Wake)

(* ------------------------- reading the state --------------------------- *)
Tasks == 1..Len(tasks)
Conns == 1..nconn
Finished(t) == tasks[t].pc \in {"done", "crashed"}
IsRegister(f) == f.type = "register"
IsChunk(f) == f.type = "stream_chunk"
IsStreamTerminal(f) == f.type \in {"stream_end", "error"}
IsUnaryAnswer(f) == f.type \in {"chat_completion_response", "error"}

\* The frames carrying request id i, and those written to connection c, in
\* the order written.
FramesWithId(i) == LET Has(f) == f.id = i IN SelectSeq(wire, Has)
FramesOn(c) == LET On(f) == f.conn = c IN SelectSeq(wire, On)
FramesOfTask(t) == LET Of(f) == f.task = t IN SelectSeq(wire, Of)

Count(seq, Test(_)) == Len(SelectSeq(seq, Test))

IsStream(t) == tasks[t].msg.type = "chat_completion" /\ tasks[t].msg.payload = "stream"
IsUnary(t) == tasks[t].msg.type = "chat_completion" /\ tasks[t].msg.payload = "unary"

\* The connection task t's message came on has been open ever since (a
\* closed connection never reopens).
ConnectionKept(t) == tasks[t].conn \in live

(* ------------------------------- C1 ------------------------------------ *)
\* The delay the claim gives for the sleep after n earlier sleeps.
ExpectedDelay(n) == Min(INITIAL_BACKOFF * Pow(BACKOFF_MULTIPLIER, n), MAX_BACKOFF)

\* C1: in a run of failed dials that starts with the delay at its floor, the
\* sleep after the n-th failure (n from 0) lasts min(1 * 2^n, 60); and the
\* sleep that follows the drop of an established connection lasts 1, however
\* high the delay had climbed before that connection.
C1_BackoffSchedule ==
    mgr = "sleeping" =>
        /\ lastEnd = "dial" => delay = ExpectedDelay(streak)
        /\ lastEnd = "drop" => delay = INITIAL_BACKOFF

\* The delay climbed to the ceiling, a connection was then established, and
\* the sleep after its drop lasts 1.
C1_Witness ==
    /\ mgr = "sleeping"
    /\ lastEnd = "drop"
    /\ capped
    /\ delay = INITIAL_BACKOFF

(* ------------------------------- C2 ------------------------------------ *)
\* C2 as claimed: the delay is reset only when the message loop is reached,
\* so the sleep after a failed registration lasts min(2^n, 60), n the sleeps
\* since the message loop was last reached.
C2_ResetOnlyWhenServing ==
    (mgr = "sleeping" /\ lastEnd = "register") => delay = ExpectedDelay(sinceServing)

\* C2 as amended: the delay is reset when the channel is established, before
\* the register frame is sent, so the sleep after a failed registration
\* always lasts the floor delay.
C2_ResetWhenEstablished ==
    (mgr = "sleeping" /\ lastEnd = "register") =>
        (delay = INITIAL_BACKOFF /\ backoff = INITIAL_BACKOFF)

\* A registration fails after earlier failures, and the sleep lasts 1.
C2_Witness ==
    /\ mgr = "sleeping"
    /\ lastEnd = "register"
    /\ sinceServing >= 1
    /\ delay = INITIAL_BACKOFF

(* ------------------------------- C3 ------------------------------------ *)
\* The payloads of the chunk frames in seq, in order.
ChunkPayloads(seq) ==
    LET ch == SelectSeq(seq, IsChunk) IN [i \in 1..Len(ch) |-> ch[i].data]

\* C3: for every streaming job, the chunk frames with its id carry the units
\* in the order they were received (the k-th frame carries the k-th unit),
\* at most one terminal frame (stream_end or error) has its id, and no
\* frame with its id follows the terminal one.
C3_StreamOrder ==
    \A t \in Tasks :
        IsStream(t) =>
            LET fr == FramesWithId(RequestId(t)) IN
            /\ Len(ChunkPayloads(fr)) <= tasks[t].recv
            /\ \A i \in 1..Len(ChunkPayloads(fr)) : ChunkPayloads(fr)[i] = i
            /\ Count(fr, IsStreamTerminal) <= 1
            /\ \A i \in 1..Len(fr) : IsStreamTerminal(fr[i]) => i = Len(fr)

\* A streaming job has sent two chunks and stream_end, and a frame of
\* another job went out between its first frame and its last.
C3_Witness ==
    \E t \in Tasks :
        /\ IsStream(t)
        /\ LET fr == FramesOfTask(t) IN
           /\ Len(fr) = 3
           /\ fr[3].type = "stream_end"
        /\ \E i, j, k \in 1..Len(wire) :
              /\ i < j /\ j < k
              /\ wire[i].task = t /\ wire[k].task = t
              /\ wire[j].task \notin {0, t}

(* ------------------------------- C4 ------------------------------------ *)
\* C4 as claimed: a streaming job whose handler has finished with its
\* connection still open has exactly one terminal frame.
C4_OneTerminalPerStream ==
    \A t \in Tasks :
        (IsStream(t) /\ Finished(t) /\ ConnectionKept(t)) =>
            Count(FramesOfTask(t), IsStreamTerminal) = 1

(* ------------------------------- C5 ------------------------------------ *)
\* C5: a unary job never has more than one frame out of {result, error};
\* once its handler has finished with its connection still open it has
\* exactly one; and a job answered with the "LLM error" of a non-success
\* status has no result frame.
C5_UnaryExactlyOne ==
    \A t \in Tasks :
        IsUnary(t) =>
            LET fr == FramesWithId(RequestId(t)) IN
            /\ Len(fr) = Count(fr, IsUnaryAnswer)
            /\ Len(fr) <= 1
            /\ (Finished(t) /\ ConnectionKept(t)) => Len(fr) = 1

\* A unary job was answered with a non-success status and has its one error
\* frame, with the connection still open.
C5_Witness ==
    \E t \in Tasks :
        /\ IsUnary(t) /\ Finished(t) /\ ConnectionKept(t)
        /\ FramesOfTask(t) = << [conn |-> tasks[t].conn, type |-> "error", id |-> t,
                                 task |-> t, data |-> 0, error |-> "LLM error"] >>

(* ------------------------------- C6 ------------------------------------ *)
\* C6: no connection ever carries more than one register frame, and every
\* connection that is open, or from which a message has been read, carries
\* exactly one (so it was written before the first read).
C6_RegisterOncePerConnection ==
    \A c \in Conns :
        /\ Count(FramesOn(c), IsRegister) <= 1
        /\ (c \in live \/ \E t \in Tasks : tasks[t].conn = c) =>
               Count(FramesOn(c), IsRegister) = 1

\* Two connections have been established and each carries its register
\* frame; a message has been read from the second.
C6_Witness ==
    /\ nconn >= 2
    /\ \A c \in {1, 2} : Count(FramesOn(c), IsRegister) = 1
    /\ \E t \in Tasks : tasks[t].conn = 2

(* ------------------------------- C7 ------------------------------------ *)
\* C7: the first frame written to any connection is its register frame.
C7_RegisterFirst ==
    \A c \in Conns : FramesOn(c) # << >> => IsRegister(FramesOn(c)[1])

\* A handler spawned on connection 1 has written a frame to connection 2,
\* after the register frame of connection 2.
C7_Witness ==
    \E i \in 1..Len(wire) :
        /\ wire[i].conn = 2
        /\ wire[i].task >= 1
        /\ tasks[wire[i].task].conn = 1
        /\ IsRegister(FramesOn(2)[1])

(* ------------------------------- C8 ------------------------------------ *)
\* C8 as claimed: every response frame is on the connection its request
\* was read from.
C8_NoDeliveryOnLaterConnection ==
    \A i \in 1..Len(wire) :
        wire[i].task >= 1 => wire[i].conn = tasks[wire[i].task].conn

(* ------------------------------- C9 ------------------------------------ *)
\* C9 as claimed: a task one of whose sends failed made no further send
\* attempt and returned normally.
C9_FailedEmitEndsTaskQuietly ==
    \A t \in Tasks :
        tasks[t].failed > 0 => (tasks[t].failed = 1 /\ tasks[t].pc = "done")

(* ------------------------------- C10 ----------------------------------- *)
\* Requests answered with a single response frame.
SingleResponse(t) ==
    /\ tasks[t].msg.shape = "record"
    /\ \/ tasks[t].msg.type \in {"ping", "models"}
       \/ IsUnary(t)

\* The frames answering the requests of the tasks in ts, in the order written.
AnswersTo(ts) == LET By(f) == f.task \in ts IN SelectSeq(wire, By)

\* The tasks of the messages read from connection c.
TasksOn(c) == {t \in Tasks : tasks[t].conn = c}

\* On an open connection whose inbound messages are one malformed text
\* followed by N single-response requests, all handled: N frames answer
\* them, one each.
MalformedThenN ==
    \A c \in live :
        LET ts == TasksOn(c) IN
        ( /\ ts # {}
          /\ \A t \in ts : Finished(t)
          /\ \A t \in ts : IF \A u \in ts : t <= u
                           THEN tasks[t].msg.shape = "malformed"
                           ELSE SingleResponse(t) )
        => /\ Len(AnswersTo(ts)) = Cardinality(ts) - 1
           /\ \A t \in ts : SingleResponse(t) => Len(FramesOfTask(t)) = 1

\* The step in which the handler of a malformed text runs leaves the
\* reconnect loop, the connection and every other task as they are.
MalformedStepKeepsServing ==
    \A t \in Tasks :
        ( /\ tasks[t].msg.shape = "malformed"
          /\ tasks[t].pc = "start"
          /\ tasks'[t].pc # "start" )
        => /\ mgr' = mgr /\ ws' = ws /\ live' = live
           /\ wire' = wire
           /\ \A u \in Tasks : u # t => tasks'[u] = tasks[u]

\* C10: a malformed inbound text never ends the message loop, and a
\* malformed text followed by N single-response requests on a connection
\* that stays open yields exactly N response frames.
C10_MalformedSkipped == []MalformedThenN /\ [][MalformedStepKeepsServing]_vars

\* A malformed text and then a request were read from a connection, both are
\* handled, the connection is open and carries the one response.
C10_Witness ==
    \E c \in live :
        /\ mgr = "serving"
        /\ Cardinality(TasksOn(c)) >= 2
        /\ \A t \in TasksOn(c) : Finished(t)
        /\ \E t \in TasksOn(c) : tasks[t].msg.shape = "malformed" /\ t = 1
        /\ \E t \in TasksOn(c) : SingleResponse(t) /\ Len(FramesOfTask(t)) = 1
        /\ Len(AnswersTo(TasksOn(c))) = Cardinality(TasksOn(c)) - 1

(* ------------------------------- C11 ----------------------------------- *)
\* The id the t-th inbound message carries: its own number when it has one,
\* 0 for the empty string, -1 for none.
InboundId(t) ==
    CASE tasks[t].msg.idf = "ok" -> t
      [] tasks[t].msg.idf = "empty" -> 0
      [] OTHER -> -1

\* C11: every response frame on the wire carries the id of the inbound
\* message whose handler wrote it, whatever the handlers' interleaving; the
\* register frames, and only they, carry no id.
C11_ResponseCarriesRequestId ==
    \A i \in 1..Len(wire) :
        IF IsRegister(wire[i])
        THEN wire[i].task = 0 /\ wire[i].id = -2
        ELSE /\ wire[i].task \in Tasks
             /\ wire[i].id = InboundId(wire[i].task)
             /\ wire[i].id # -2

\* Two handlers interleaved: the later request was answered while the
\* earlier one was still at its endpoint call, and the earlier one answered
\* afterwards, each frame with its own request's id.
C11_Witness ==
    \E i, j \in 1..Len(wire) :
        /\ i < j
        /\ wire[i].task > wire[j].task
        /\ wire[j].task >= 1
        /\ wire[i].id = wire[i].task
        /\ wire[j].id = wire[j].task

(* ------------------------------- C12 ----------------------------------- *)
\* C12: at most one connection is open at any instant, and it is the one
\* self.ws points at; while the loop dials or sleeps none is open; and a
\* dial made after some connection existed comes after a sleep.
C12_OneLiveConnection ==
    /\ Cardinality(live) <= 1
    /\ live \subseteq {ws}
    /\ mgr \in {"start", "connecting", "sleeping", "exited"} => live = {}
    /\ (mgr = "connecting" /\ nconn >= 1) => streak >= 1

\* The second connection is open and the first one is closed.
C12_Witness ==
    /\ mgr = "serving"
    /\ nconn = 2
    /\ live = {2}

(* ------------------------------- C13 ----------------------------------- *)
\* The environment lacks the broker address or the token.
SettingAbsent == ~BROKER_WS_URL \/ ~CONNECTOR_TOKEN

\* With a setting missing start() exits at once: no connection object, no
\* frame, no sleep ever exists.  With both settings present start() never
\* exits.
ExitsIffSettingAbsent ==
    /\ SettingAbsent =>
          /\ mgr \in {"start", "exited"}
          /\ nconn = 0 /\ ws = 0 /\ wire = << >> /\ streak = 0
    /\ ~SettingAbsent => mgr # "exited"

\* C13: a missing address or credential ends start() with a fatal exit
\* before anything is dialled; otherwise start() never ends, and every sleep
\* that follows a failed dial, a failed registration or a dropped
\* connection lasts the current delay and is followed by another dial.
C13_RetriesForever ==
    /\ []ExitsIffSettingAbsent
    /\ (SettingAbsent /\ mgr = "start") ~> (mgr = "exited")
    /\ [][mgr = "sleeping" /\ mgr' # "sleeping" => mgr' = "connecting"]_vars
    /\ \A why \in {"dial", "register", "drop"} :
          (mgr = "sleeping" /\ lastEnd = why) ~> (mgr = "connecting")

\* The loop is dialling again after a failed dial, a failed registration
\* and a dropped connection have each been slept through.
C13_Witness ==
    /\ mgr = "connecting"
    /\ nconn >= 2
    /\ streak >= 2

(* ------------------------------- C14 ----------------------------------- *)
IsError(f) == f.type = "error"

\* C14 as claimed: a data line of a streamed response that is no JSON is
\* skipped: the job that received it goes on reading its stream unless it
\* ended with stream_end, and none of its frames is an error frame.
C14_BadChunkSkipped ==
    \A t \in Tasks :
        (IsStream(t) /\ tasks[t].raised = "chunk" /\ tasks[t].failed = 0) =>
            /\ Count(FramesOfTask(t), IsError) = 0
            /\ \/ tasks[t].pc = "streaming"
               \/ /\ FramesOfTask(t) # << >>
                  /\ FramesOfTask(t)[Len(FramesOfTask(t))].type = "stream_end"

(* ------------------------------- C15 ----------------------------------- *)
\* The request of task t is a record that carries a non-empty id.
HasId(t) == tasks[t].msg.shape = "record" /\ tasks[t].msg.idf = "ok"

\* A request with an id whose handling met a processing error (endpoint
\* status or exception, stream fault, undecodable chunk, malformed payload)
\* on a connection that has stayed open: the handler has returned and the
\* request is answered by exactly one error frame, its last frame, with the
\* request's id.
ErrorBecomesOneFrame ==
    \A t \in Tasks :
        (HasId(t) /\ tasks[t].raised # "-" /\ ConnectionKept(t)) =>
            LET fs == FramesOfTask(t) IN
            /\ tasks[t].pc = "done"
            /\ Count(fs, IsError) = 1
            /\ IsError(fs[Len(fs)])
            /\ fs[Len(fs)].id = InboundId(t)
            /\ fs[Len(fs)].conn = tasks[t].conn

\* The step in which a handler meets a processing error leaves the
\* reconnect loop, the connections and every other task as they are.
ErrorStepKeepsServing ==
    \A t \in Tasks :
        (tasks[t].raised = "-" /\ tasks'[t].raised # "-") =>
            /\ mgr' = mgr /\ ws' = ws /\ live' = live /\ backoff' = backoff
            /\ Len(tasks') = Len(tasks)
            /\ \A u \in Tasks : u # t => tasks'[u] = tasks[u]

\* C15: a processing error met while handling a decoded request that
\* carries an id becomes exactly one error frame with that id (the
\* connection being open to take it), and neither ends the message loop
\* nor touches another job's task.
C15_ErrorConverted == []ErrorBecomesOneFrame /\ [][ErrorStepKeepsServing]_vars

\* The endpoint call of one job failed and was answered by its one error
\* frame while another job is still at its endpoint call and the loop
\* serves.
C15_Witness ==
    \E t, u \in Tasks :
        /\ u # t
        /\ HasId(t) /\ tasks[t].raised \in {"status", "exception"}
        /\ ConnectionKept(t)
        /\ Count(FramesOfTask(t), IsError) = 1
        /\ tasks[u].pc = "calling"
        /\ mgr = "serving"

(* ------------------------------- C16 ----------------------------------- *)
\* The handler of task t runs its first stretch and writes a frame.
AnswersAtOnce(t) == handle_message(t) /\ Len(wire') = Len(wire) + 1

\* C16: whatever the earlier handlers are doing (waiting for the endpoint
\* included), the message loop of an open connection can read the next
\* message, whichever it is, as long as the bounds of the model leave room
\* for one; every handler that has not started can start; and a heartbeat
\* or capability query whose handler has not started can be answered
\* at once.
C16_DispatchNeverBlocks ==
    /\ (mgr = "serving" /\ Load(nconn, Len(tasks) + 1) <= MaxLoad /\ ~capped)
          => \A m \in Messages : ENABLED Receive(m)
    /\ \A t \in Tasks :
          tasks[t].pc = "start" =>
              /\ ENABLED handle_message(t)
              /\ (tasks[t].msg.type \in {"ping", "models"} /\ ws \in live)
                    => ENABLED AnswersAtOnce(t)

\* An earlier job is still at its endpoint call, unanswered, and a later
\* heartbeat or unary job read from the same open connection has its
\* response on the wire.
C16_Witness ==
    \E u, t \in Tasks :
        /\ u < t
        /\ tasks[u].pc = "calling" /\ FramesOfTask(u) = << >>
        /\ tasks[t].conn = tasks[u].conn /\ ConnectionKept(t)
        /\ tasks[t].msg.type = "ping" \/ IsUnary(t)
        /\ Finished(t)
        /\ Len(FramesOfTask(t)) = 1

(* ------------------------------- C17 ----------------------------------- *)
\* The request of task t is a record of the given type.
IsOfType(t, type) == tasks[t].msg.shape = "record" /\ tasks[t].msg.type = type

\* The frame type that answers a heartbeat or a capability query.
AnswerType(t) == IF IsOfType(t, "ping") THEN "pong" ELSE "models_response"

\* A request of unknown type never has a frame and its handler returns
\* without an exception.  A heartbeat or capability query never waits for
\* the endpoint, has at most one frame, which is its answer, and exactly one
\* once handled on a connection that has stayed open.
RoutedWithoutEndpoint ==
    \A t \in Tasks :
        /\ IsOfType(t, "unknown") =>
              /\ FramesOfTask(t) = << >>
              /\ tasks[t].pc \in {"start", "done"}
              /\ tasks[t].raised = "-" /\ tasks[t].failed = 0
        /\ (IsOfType(t, "ping") \/ IsOfType(t, "models")) =>
              LET fs == FramesOfTask(t) IN
              /\ tasks[t].pc \notin {"calling", "streaming"}
              /\ Len(fs) <= 1
              /\ \A i \in 1..Len(fs) : fs[i].type = AnswerType(t)
              /\ (Finished(t) /\ ConnectionKept(t)) => Len(fs) = 1

\* The step in which the handler of a request of unknown type runs leaves
\* the reconnect loop, the connections, the wire and every other task as
\* they are.
UnknownStepKeepsServing ==
    \A t \in Tasks :
        (IsOfType(t, "unknown") /\ tasks[t].pc = "start" /\ tasks'[t].pc # "start")
        => /\ mgr' = mgr /\ ws' = ws /\ live' = live
           /\ wire' = wire
           /\ \A u \in Tasks : u # t => tasks'[u] = tasks[u]

\* C17: a request of unknown type is dropped without any frame and without
\* ending the message loop; a heartbeat gets exactly one pong and a
\* capability query exactly one models_response, with no endpoint call.
C17_UnknownDroppedOthersAnswered ==
    []RoutedWithoutEndpoint /\ [][UnknownStepKeepsServing]_vars

\* On an open connection a request of unknown type has been handled with
\* nothing written, and a heartbeat read from the same connection has its
\* single pong.
C17_Witness ==
    \E t, u \in Tasks :
        /\ IsOfType(t, "unknown") /\ tasks[t].pc = "done"
        /\ FramesOfTask(t) = << >>
        /\ IsOfType(u, "ping") /\ tasks[u].pc = "done"
        /\ Len(FramesOfTask(u)) = 1
        /\ tasks[u].conn = tasks[t].conn /\ ConnectionKept(t)
        /\ mgr = "serving"

(* ------------------------------- C18 ----------------------------------- *)
\* Task t waits for the endpoint: for the answer to its call, or for the
\* next line of its stream.
AtEndpoint(t) == tasks[t].pc \in {"calling", "streaming"}

\* A handler that waits for the endpoint can take the endpoint's answer
\* wherever the reconnect loop is and whether or not its connection is
\* open.
EndpointAnswerTaken ==
    \A t \in Tasks :
        /\ tasks[t].pc = "calling" =>
              \A o \in CallOutcomes : ENABLED handle_chat_completion(t, o)
        /\ tasks[t].pc = "streaming" =>
              \A ev \in {"done", "eof", "fault"} :
                  ENABLED handle_streaming_completion(t, ev)

\* A step of the reconnect loop (a drop, a sleep's end, a dial) changes no
\* task; and a handler that waits for the endpoint moves on only in a step
\* of its own, which is no step of the reconnect loop.
LoopStepKeepsHandlers ==
    /\ (mgr' # mgr \/ live' # live \/ ws' # ws \/ nconn' # nconn)
          => tasks' = tasks
    /\ \A t \in Tasks :
          (AtEndpoint(t) /\ tasks'[t] # tasks[t]) =>
              /\ mgr' = mgr /\ live' = live /\ ws' = ws
              /\ \A u \in Tasks : u # t => tasks'[u] = tasks[u]

\* C18: the close of a connection cancels no handler: one that waits for
\* the endpoint when its connection closes stays as it is through the close,
\* the sleep and the later dials, and ends only by taking the end of its
\* endpoint call.
C18_DropCancelsNothing == []EndpointAnswerTaken /\ [][LoopStepKeepsHandlers]_vars

\* A unary job read from the first connection took its endpoint's answer
\* when only the second connection was open, and wrote its response there.
C18_Witness ==
    \E t \in Tasks :
        /\ IsUnary(t) /\ tasks[t].conn = 1
        /\ live = {2}
        /\ tasks[t].pc = "done" /\ tasks[t].raised = "-"
        /\ Len(FramesOfTask(t)) = 1
        /\ FramesOfTask(t)[1].conn = 2

(* ------------------------------- C19 ----------------------------------- *)
\* The values the claim allows the delay.
BackoffValues == {1, 2, 4, 8, 16, 32, 60}

\* C19: self.backoff is one of 1, 2, 4, 8, 16, 32, 60 in every reachable
\* state, and so is the length of every sleep.
C19_BackoffInRange ==
    /\ backoff \in BackoffValues
    /\ mgr = "sleeping" => delay \in BackoffValues

\* The delay has climbed to the ceiling, been reset by a connection, and
\* begun to climb again.
C19_Witness ==
    /\ capped
    /\ nconn >= 1
    /\ backoff = 2

(* ------------------------------- C20 ----------------------------------- *)
\* The requests whose exceptions reach the except clause of line 109
\* without passing the one of line 137: a chat_completion whose payload is
\* no record, a heartbeat, a capability query.
TopLevelOnly(t) ==
    \/ IsOfType(t, "ping") \/ IsOfType(t, "models")
    \/ IsOfType(t, "chat_completion") /\ tasks[t].msg.payload = "bad"

\* No error frame answers such a request unless it carries a non-empty id;
\* a request with a malformed payload and no such id is handled without any
\* frame; valid JSON that is no record never has a frame.
NoIdNoError ==
    \A t \in Tasks :
        /\ (TopLevelOnly(t) /\ ~HasId(t)) => Count(FramesOfTask(t), IsError) = 0
        /\ (TopLevelOnly(t) /\ ~HasId(t) /\ tasks[t].raised = "payload") =>
              /\ FramesOfTask(t) = << >>
              /\ tasks[t].pc = "done"
        /\ tasks[t].msg.shape = "nonrecord" =>
              /\ FramesOfTask(t) = << >>
              /\ tasks[t].pc \in {"start", "crashed"}

\* The step in which the handler of valid JSON that is no record runs
\* leaves the reconnect loop, the connections, the wire and every other
\* task as they are.
NonRecordStepKeepsServing ==
    \A t \in Tasks :
        ( /\ tasks[t].msg.shape = "nonrecord"
          /\ tasks[t].pc = "start"
          /\ tasks'[t].pc # "start" )
        => /\ mgr' = mgr /\ ws' = ws /\ live' = live
           /\ wire' = wire
           /\ \A u \in Tasks : u # t => tasks'[u] = tasks[u]

\* C20: the except clause of line 109 sends its error frame only for a
\* request with a non-empty id: a request without one whose handling raises
\* there gets no error frame, and valid JSON that is no record gets no frame
\* of any kind and leaves the message loop running.
C20_TopLevelErrorNeedsId == []NoIdNoError /\ [][NonRecordStepKeepsServing]_vars

\* On an open connection a chat_completion with an empty id and a payload
\* that is no record has been handled without a frame, and so has a JSON
\* text that is no record.
C20_Witness ==
    \E t, u \in Tasks :
        /\ tasks[t].raised = "payload" /\ tasks[t].msg.idf = "empty"
        /\ tasks[t].pc = "done" /\ FramesOfTask(t) = << >>
        /\ tasks[u].msg.shape = "nonrecord" /\ tasks[u].pc = "crashed"
        /\ FramesOfTask(u) = << >>
        /\ ConnectionKept(t) /\ ConnectionKept(u)
        /\ mgr = "serving"

====
